---- MODULE Spec2Model ----
(***************************************************************************)
(* Model of rs-drivelist's two platform probes.                            *)
(*   - src/src/pal/windows.rs : get_detail_data and the helpers it calls   *)
(*     (get_device_number, get_mount_points, get_device_size,              *)
(*     get_partition_table_type, get_adapter_info, get_device_block_size). *)
(*   - src/src/pal/macos.rs   : diskutil() and the From conversions.       *)
(*   - src/rs-drivelist/src/device.rs : DeviceDescriptor / MountPoint.     *)
(* Every native call is an input: its outcome is drawn with \E from the    *)
(* replies the call can give.  Option<T> is a sequence: <<>> is None and   *)
(* <<x>> is Some(x).  A string field is the tuple of its parts: <<>> is    *)
(* the empty string and a formatted string lists its pieces.               *)
(***************************************************************************)
EXTENDS Integers, Sequences, FiniteSets, TLC

VARIABLES
    fresh,           \* the descriptor the caller creates for each device
    pc,              \* position in the running function
    devIdx,          \* index of the device whose descriptor is being filled
    drives,          \* descriptors already finished, in enumeration order
    device,          \* the descriptor get_detail_data is filling (&mut)
    h_device,        \* get_detail_data: interface handle
    index,           \* get_detail_data: interface index
    device_number,   \* get_detail_data: resolved device number
    h_physical,      \* get_detail_data: physical-drive handle
    brk,             \* which statement left the get_detail_data loop
    volumes,         \* get_mount_points: letters from get_available_volumes
    vi,              \* get_mount_points: position in volumes
    h_logical,       \* get_mount_points: the function-level h_logical
    volDisk,         \* OS: the disk each logical volume lives on
    openHandles,     \* OS: handles opened and not yet closed
    reply,           \* output buffer / outcome of the last native query
    output,          \* diskutil: Output of the child process
    parsed,          \* diskutil: Option<Disks>
    result           \* diskutil: what the call produced

vars == <<fresh, pc, devIdx, drives, device, h_device, index,
          device_number, h_physical, brk, volumes, vi, h_logical, volDisk,
          openHandles, reply, output, parsed, result>>

winLocals == <<h_device, index, device_number, h_physical, brk, volumes, vi,
               h_logical>>
macVars == <<output, parsed, result>>

(***************************************************************************)
(* Bounds of the model.                                                    *)
(***************************************************************************)
NumDevices == 2          \* devices handed to get_detail_data in turn
MaxIfaces == 1           \* most interfaces the enumerator reports per device
MaxVolumes == 1          \* drive letters GetLogicalDrives can report
MaxExtents == 2          \* largest NumberOfDiskExtents a reply carries
MaxPartitionCount == 12  \* largest PartitionCount a layout reply carries
MaxDisks == 1            \* disks in a parsed diskutil listing
MaxPartitions == 2       \* partitions per disk in a parsed listing

(***************************************************************************)
(* Program constants.                                                      *)
(***************************************************************************)
PARTITION_STYLE_MBR == 0
PARTITION_STYLE_GPT == 1
DRIVE_REMOVABLE == 2
DRIVE_FIXED == 3
DefaultBlockSize == 512

None == <<>>
Some(x) == <<x>>

INVALID_HANDLE_VALUE == [kind |-> "invalid", dev |-> 0, idx |-> 0, vol |-> 0]
Handle(k, d, i, v) == [kind |-> k, dev |-> d, idx |-> i, vol |-> v]

NoReply == [kind |-> "none"]

(***************************************************************************)
(* device.rs                                                               *)
(***************************************************************************)
MountPoint_new(path) ==
    [path |-> path, label |-> None, totalBytes |-> None,
     availableBytes |-> None]

DefaultDescriptor ==
    [enumerator |-> <<>>, busType |-> None, busVersion |-> None,
     device |-> <<>>, devicePath |-> None, raw |-> <<>>,
     description |-> <<>>, error |-> None, partitionTableType |-> None,
     size |-> 0, blockSize |-> DefaultBlockSize,
     logicalBlockSize |-> DefaultBlockSize, mountpoints |-> <<>>,
     mountpointLabels |-> <<>>, isReadOnly |-> FALSE, isSystem |-> FALSE,
     isCard |-> FALSE, isSCSI |-> FALSE, isUSB |-> FALSE,
     isVirtual |-> FALSE, isRemovable |-> FALSE, isUAS |-> None]


(***************************************************************************)
(* windows.rs : pure helpers                                               *)
(***************************************************************************)
\* The letters of a drive mask, lowest bit first ('A' is letter 1).
RECURSIVE AvailableVolumes(_, _)
AvailableVolumes(logical_drive_mask, current_drive_letter) ==
    IF logical_drive_mask = 0 THEN <<>>
    ELSE (IF logical_drive_mask % 2 # 0 THEN <<current_drive_letter>>
          ELSE <<>>)
         \o AvailableVolumes(logical_drive_mask \div 2,
                             current_drive_letter + 1)

get_available_volumes(logical_drive_mask) ==
    AvailableVolumes(logical_drive_mask, 1)

\* What the two identification queries can answer for a target on disk n.
\* The output buffers are zeroed before each call, so a failed query, and
\* Extents[0] of a reply with no extent, read as 0.
DeviceNumberReplies(n) ==
    { [extents_ok |-> eo, NumberOfDiskExtents |-> ne,
       Extents0DiskNumber |-> IF eo /\ ne >= 1 THEN n ELSE 0,
       number_ok |-> no, DeviceNumber |-> IF no THEN n ELSE 0] :
      eo \in BOOLEAN, ne \in 0..MaxExtents, no \in BOOLEAN }

get_device_number(r) ==
    IF r.extents_ok /\ r.NumberOfDiskExtents >= 2 THEN -1
    ELSE LET disk_number == IF r.extents_ok THEN r.Extents0DiskNumber
                            ELSE -1
         IN  IF r.number_ok THEN r.DeviceNumber ELSE disk_number

PhysicalDrive(n) == <<"\\\\.\\PhysicalDrive", n>>
VolumePath(letter) == <<letter, ":\\">>

\* A classification that forgets the partition count.
PartitionTableType_AnyCount(PartitionStyle, PartitionCount) ==
    IF PartitionStyle = PARTITION_STYLE_MBR THEN Some("mbr")
    ELSE IF PartitionStyle = PARTITION_STYLE_GPT THEN Some("gpt")
    ELSE None

\* Classification of a drive layout: Some("mbr"), Some("gpt"), or None when
\* the descriptor's field is not assigned.
PartitionTableType(PartitionStyle, PartitionCount) ==
    IF PartitionStyle = PARTITION_STYLE_MBR /\ PartitionCount % 4 = 0
    THEN Some("mbr")
    ELSE IF PartitionStyle = PARTITION_STYLE_GPT THEN Some("gpt")
    ELSE None

(***************************************************************************)
(* Control flow shared by the steps of get_detail_data                     *)
(***************************************************************************)
\* `break` out of the interface loop at statement s.
Break(s) ==
    /\ pc' = "exit"
    /\ brk' = s

\* panic!/unwrap at statement s: the call never returns.
Panic(s) ==
    /\ pc' = "panic"
    /\ brk' = s

Close(handles, h) == handles \ {h}


(***************************************************************************)
(* The caller: one default descriptor per device, get_detail_data run for  *)
(* each in turn, the descriptor then pushed to the result.  Device d is    *)
(* the disk the OS numbers d.                                              *)
(***************************************************************************)
DiskNumbers == 0..(NumDevices - 1)
TrueNumber(d) == d

CallerNext ==
    /\ pc = "caller"
    /\ devIdx < NumDevices
    /\ device' = fresh
    /\ pc' = "entry"
    /\ reply' = NoReply
    /\ UNCHANGED <<fresh, devIdx, drives, winLocals, volDisk, openHandles,
                   macVars>>

CallerPush ==
    /\ pc = "returned"
    /\ drives' = Append(drives, device)
    /\ devIdx' = devIdx + 1
    /\ pc' = "caller"
    /\ reply' = NoReply
    /\ UNCHANGED <<fresh, device, winLocals, volDisk, openHandles,
                   macVars>>

(***************************************************************************)
(* get_detail_data                                                         *)
(***************************************************************************)
\* let mut h_device = INVALID_HANDLE_VALUE; let mut index = 0;
Entry ==
    /\ pc = "entry"
    /\ h_device' = INVALID_HANDLE_VALUE
    /\ index' = 0
    /\ brk' = "none"
    /\ pc' = "enum"
    /\ UNCHANGED <<fresh, devIdx, drives, device, device_number,
                   h_physical, volumes, vi, h_logical, volDisk, openHandles,
                   reply, macVars>>

\* Top of the loop: close the previous interface handle, ask for interface
\* `index`.  The enumerator exposes at most MaxIfaces interfaces.
EnumInterfaces ==
    /\ pc = "enum"
    /\ openHandles' = IF h_device # INVALID_HANDLE_VALUE
                      THEN Close(openHandles, h_device) ELSE openHandles
    /\ h_device' = INVALID_HANDLE_VALUE
    /\ \E r \in {"ok", "ERROR_NO_MORE_ITEMS", "error"} :
          /\ r = "ok" => index < MaxIfaces
          /\ reply' = [kind |-> "enum", index |-> index, outcome |-> r]
          /\ CASE r = "ok" -> pc' = "sizing" /\ brk' = brk
               [] r = "ERROR_NO_MORE_ITEMS" -> Break("no_more_items")
               [] OTHER -> Panic("SetupDiEnumDeviceInterfaces")
    /\ UNCHANGED <<fresh, devIdx, drives, device, index, device_number,
                   h_physical, volumes, vi, h_logical, volDisk, macVars>>

\* First SetupDiGetDeviceInterfaceDetailW call: the required size.
SizingCall ==
    /\ pc = "sizing"
    /\ \E r \in {"ok", "ERROR_INSUFFICIENT_BUFFER", "error"} :
          /\ reply' = [kind |-> "sizing", outcome |-> r]
          /\ IF r = "error"
             THEN Panic("SetupDiGetDeviceInterfaceDetailW")
             ELSE pc' = "detail" /\ brk' = brk
    /\ UNCHANGED <<fresh, devIdx, drives, device, h_device, index,
                   device_number, h_physical, volumes, vi, h_logical,
                   volDisk, openHandles, macVars>>

\* Second SetupDiGetDeviceInterfaceDetailW call: the device path.
DetailCall ==
    /\ pc = "detail"
    /\ \E ok \in BOOLEAN :
          /\ reply' = [kind |-> "detail", ok |-> ok]
          /\ IF ok THEN pc' = "open" /\ brk' = brk
             ELSE Break("detail")
    /\ UNCHANGED <<fresh, devIdx, drives, device, h_device, index,
                   device_number, h_physical, volumes, vi, h_logical,
                   volDisk, openHandles, macVars>>

\* h_device = CreateFileW(DevicePath, ...)
OpenInterface ==
    /\ pc = "open"
    /\ \E ok \in BOOLEAN :
          /\ reply' = [kind |-> "open", ok |-> ok]
          /\ IF ok
             THEN /\ h_device' = Handle("interface", devIdx, index, 0)
                  /\ openHandles' = openHandles \cup {h_device'}
                  /\ pc' = "devnum" /\ brk' = brk
             ELSE /\ h_device' = INVALID_HANDLE_VALUE
                  /\ openHandles' = openHandles
                  /\ Break("open")
    /\ UNCHANGED <<fresh, devIdx, drives, device, index, device_number,
                   h_physical, volumes, vi, h_logical, volDisk, macVars>>

\* device_number = get_device_number(h_device); raw and device built from it;
\* then get_mount_points starts: the letters are read and h_logical is
\* INVALID_HANDLE_VALUE.
ResolveDeviceNumber ==
    /\ pc = "devnum"
    /\ \E r \in DeviceNumberReplies(TrueNumber(devIdx)),
          logical_drive_mask \in 0..(2^MaxVolumes - 1) :
          /\ reply' = [kind |-> "devnum", buf |-> r]
          /\ device_number' = get_device_number(r)
          /\ IF device_number' < 0
             THEN /\ device' = [device EXCEPT
                        !.error = Some("Couldn't get device number")]
                  /\ Break("device_number")
                  /\ UNCHANGED <<volumes, vi, h_logical>>
             ELSE /\ device' = [device EXCEPT
                        !.raw = PhysicalDrive(device_number'),
                        !.device = PhysicalDrive(device_number')]
                  /\ volumes' = get_available_volumes(logical_drive_mask)
                  /\ vi' = 1
                  /\ h_logical' = INVALID_HANDLE_VALUE
                  /\ pc' = "mounts" /\ brk' = brk
    /\ UNCHANGED <<fresh, devIdx, drives, h_device, index, h_physical,
                   volDisk, openHandles, macVars>>


(***************************************************************************)
(* get_mount_points: one action per iteration of the loop over the letters *)
(***************************************************************************)
\* The values GetDriveTypeA returns.
DriveTypes == 0..6

\* What GetDiskFreeSpaceW can write.  The products are taken in u64; the
\* values drawn here stay far below 2^64.
FreeSpaceReplies ==
    { [sectors_per_cluster |-> 8, bytes_per_sector |-> 512,
       number_of_free_clusters |-> f, total_number_of_clusters |-> 2] :
      f \in {1} }

PopulatedMountPoint(drive, fs) ==
    LET bytes_per_cluster == fs.sectors_per_cluster * fs.bytes_per_sector
    IN  [drive EXCEPT
           !.totalBytes = Some(bytes_per_cluster * fs.total_number_of_clusters),
           !.availableBytes =
               Some(bytes_per_cluster * fs.number_of_free_clusters)]

\* The handle `let h_logical = CreateFileA(..)` binds inside the loop body.
\* It shadows the function-level h_logical, which is the only one the
\* CloseHandle calls name.
VolumeHandle(volume_name) == Handle("logical", devIdx, index, volume_name)

MountVolume ==
    /\ pc = "mounts"
    /\ vi <= Len(volumes)
    /\ LET volume_name == volumes[vi]
           closed == IF h_logical # INVALID_HANDLE_VALUE
                     THEN Close(openHandles, h_logical) ELSE openHandles
           drive == MountPoint_new(VolumePath(volume_name))
           continue(outcome, handles, r) ==
               /\ reply' = [kind |-> "volume", volume |-> volume_name,
                            outcome |-> outcome, buf |-> r]
               /\ openHandles' = handles
               /\ vi' = vi + 1
               /\ UNCHANGED <<device, pc, brk, volumes>>
           fail(outcome, handles, r) ==
               /\ reply' = [kind |-> "volume", volume |-> volume_name,
                            outcome |-> outcome, buf |-> r]
               /\ openHandles' = handles
               /\ device' = [device EXCEPT !.error = Some("os error")]
               /\ Break("mount_points")
               /\ vi' = 0
               /\ volumes' = <<>>
       IN  /\ h_logical' = INVALID_HANDLE_VALUE
           /\ \/ \E drive_type \in DriveTypes \ {DRIVE_FIXED, DRIVE_REMOVABLE} :
                    continue("drive_type", closed, NoReply)
              \/ continue("open_failed", closed, NoReply)
              \/ \E r \in DeviceNumberReplies(volDisk[volume_name]) :
                    LET opened == closed \cup {VolumeHandle(volume_name)}
                        logical_volume_device_number == get_device_number(r)
                    IN  IF logical_volume_device_number < 0
                        THEN continue("no_number", opened, r)
                        ELSE IF logical_volume_device_number # device_number
                        THEN continue("other_device", opened, r)
                        ELSE \/ fail("GetVolumePathNameW", opened, r)
                             \/ fail("GetDiskFreeSpaceW", opened, r)
                             \/ \E fs \in FreeSpaceReplies :
                                  /\ reply' = [kind |-> "volume",
                                        volume |-> volume_name,
                                        outcome |-> "pushed", buf |-> r]
                                  /\ openHandles' = opened
                                  /\ device' = [device EXCEPT !.mountpoints =
                                        Append(@, PopulatedMountPoint(drive, fs))]
                                  /\ vi' = vi + 1
                                  /\ UNCHANGED <<pc, brk, volumes>>
    /\ UNCHANGED <<fresh, devIdx, drives, h_device, index, device_number,
                   h_physical, volDisk, macVars>>

\* After the last letter: close the function-level h_logical, return Ok(()).
MountPointsReturn ==
    /\ pc = "mounts"
    /\ vi > Len(volumes)
    /\ openHandles' = IF h_logical # INVALID_HANDLE_VALUE
                      THEN Close(openHandles, h_logical) ELSE openHandles
    /\ h_logical' = INVALID_HANDLE_VALUE
    /\ volumes' = <<>>
    /\ vi' = 0
    /\ pc' = "physical"
    /\ reply' = NoReply
    /\ UNCHANGED <<fresh, devIdx, drives, device, h_device, index,
                   device_number, h_physical, brk, volDisk, macVars>>


(***************************************************************************)
(* get_detail_data: the physical handle and the property battery           *)
(***************************************************************************)
SectorSizes == {0, 4096}         \* sector sizes a query can report (u32)
DiskSizes == {1000}              \* DiskSize a geometry reply carries
BusTypeCodes == {7, 16}          \* BusType bytes an adapter reply carries
BusVersions == {<<3, 0>>}        \* BusMajorVersion, BusMinorVersion
\* The styles a layout reply can carry: MBR, GPT and RAW (2).
PartitionStyles == {PARTITION_STYLE_MBR, PARTITION_STYLE_GPT} \cup {2}

\* BusType is declared BOOLEAN (u8) and widened with `as u32`.
U8Max == 255
AllBusTypeCodes == 0..U8Max

\* The match with the arms of SCM and UFS exchanged.
get_bus_type_Swapped(BusType) ==
    CASE BusType = 0 -> "UNKNOWN"
      [] BusType = 1 -> "SCSI"
      [] BusType = 2 -> "ATAPI"
      [] BusType = 3 -> "ATA"
      [] BusType = 4 -> "1394"
      [] BusType = 5 -> "SSA"
      [] BusType = 6 -> "FIBRE"
      [] BusType = 7 -> "USB"
      [] BusType = 8 -> "RAID"
      [] BusType = 9 -> "iSCSI"
      [] BusType = 10 -> "SAS"
      [] BusType = 11 -> "SATA"
      [] BusType = 12 -> "SDCARD"
      [] BusType = 13 -> "MMC"
      [] BusType = 14 -> "VIRTUAL"
      [] BusType = 15 -> "FILEBACKEDVIRTUAL"
      [] BusType = 17 -> "NVME"
      [] BusType = 18 -> "UFS"
      [] BusType = 19 -> "SCM"
      [] OTHER -> "INVALID"

get_bus_type(BusType) ==
    CASE BusType = 0 -> "UNKNOWN"
      [] BusType = 1 -> "SCSI"
      [] BusType = 2 -> "ATAPI"
      [] BusType = 3 -> "ATA"
      [] BusType = 4 -> "1394"
      [] BusType = 5 -> "SSA"
      [] BusType = 6 -> "FIBRE"
      [] BusType = 7 -> "USB"
      [] BusType = 8 -> "RAID"
      [] BusType = 9 -> "iSCSI"
      [] BusType = 10 -> "SAS"
      [] BusType = 11 -> "SATA"
      [] BusType = 12 -> "SDCARD"
      [] BusType = 13 -> "MMC"
      [] BusType = 14 -> "VIRTUAL"
      [] BusType = 15 -> "FILEBACKEDVIRTUAL"
      [] BusType = 17 -> "NVME"
      [] BusType = 19 -> "UFS"
      [] BusType = 18 -> "SCM"
      [] OTHER -> "INVALID"

\* h_physical = CreateFileA(device.device, ...).  The failure message is
\* formatted from device.device_path.as_ref().unwrap().
OpenPhysical ==
    /\ pc = "physical"
    /\ \E ok \in BOOLEAN :
          /\ reply' = [kind |-> "physical", ok |-> ok]
          /\ IF ok
             THEN /\ h_physical' = Handle("physical", devIdx, index, 0)
                  /\ openHandles' = openHandles \cup {h_physical'}
                  /\ pc' = "geometry" /\ brk' = brk
                  /\ device' = device
             ELSE /\ h_physical' = INVALID_HANDLE_VALUE
                  /\ openHandles' = openHandles
                  /\ IF device.devicePath = None
                     THEN Panic("physical") /\ device' = device
                     ELSE /\ device' = [device EXCEPT !.error =
                                Some(<<"Cannot open: ", device.devicePath[1]>>)]
                          /\ Break("physical")
    /\ UNCHANGED <<fresh, devIdx, drives, h_device, index, device_number,
                   volumes, vi, h_logical, volDisk, macVars>>

\* get_device_size
Geometry ==
    /\ pc = "geometry"
    /\ \/ /\ reply' = [kind |-> "geometry", ok |-> FALSE]
          /\ device' = [device EXCEPT
                          !.error = Some("Couldn't get disk geometry")]
          /\ Break("geometry")
       \/ \E sz \in DiskSizes, bps \in SectorSizes :
             /\ reply' = [kind |-> "geometry", ok |-> TRUE, DiskSize |-> sz,
                          BytesPerSector |-> bps]
             /\ device' = [device EXCEPT !.size = sz, !.blockSize = bps]
             /\ pc' = "layout" /\ brk' = brk
    /\ UNCHANGED <<fresh, devIdx, drives, h_device, index, device_number,
                   h_physical, volumes, vi, h_logical, volDisk, openHandles,
                   macVars>>

\* get_partition_table_type; on failure it sets error itself and the caller
\* then overwrites it.
Layout ==
    /\ pc = "layout"
    /\ \/ /\ reply' = [kind |-> "layout", ok |-> FALSE]
          /\ device' = [[device EXCEPT !.error = Some("NOT has_disk_layout")]
                          EXCEPT !.error = Some("Couldn't get partition type")]
          /\ Break("layout")
       \/ \E style \in PartitionStyles, count \in 0..MaxPartitionCount :
             /\ reply' = [kind |-> "layout", ok |-> TRUE,
                          PartitionStyle |-> style, PartitionCount |-> count]
             /\ device' = IF PartitionTableType(style, count) # None
                          THEN [device EXCEPT !.partitionTableType =
                                   PartitionTableType(style, count)]
                          ELSE device
             /\ pc' = "adapter" /\ brk' = brk
    /\ UNCHANGED <<fresh, devIdx, drives, h_device, index, device_number,
                   h_physical, volumes, vi, h_logical, volDisk, openHandles,
                   macVars>>

\* get_adapter_info and its call site, for an adapter reply whose BusType
\* byte is one of `codes`.
get_adapter_info(codes) ==
    /\ pc = "adapter"
    /\ \/ /\ reply' = [kind |-> "adapter", ok |-> FALSE]
          /\ device' = [device EXCEPT
                          !.error = Some("Couldn't get adapter info")]
          /\ Break("adapter")
       \/ \E code \in codes, ver \in BusVersions :
             /\ reply' = [kind |-> "adapter", ok |-> TRUE, BusType |-> code,
                          BusMajorVersion |-> ver[1],
                          BusMinorVersion |-> ver[2]]
             /\ device' = [device EXCEPT
                             !.busType = Some(get_bus_type(code)),
                             !.busVersion = Some(<<ver[1], ".", ver[2]>>)]
             /\ pc' = "alignment" /\ brk' = brk
    /\ UNCHANGED <<fresh, devIdx, drives, h_device, index, device_number,
                   h_physical, volumes, vi, h_logical, volDisk, openHandles,
                   macVars>>

Adapter == get_adapter_info(BusTypeCodes)

\* The same step with every value the BusType byte can take.
AdapterAnyCode == get_adapter_info(AllBusTypeCodes)

\* get_device_block_size
Alignment ==
    /\ pc = "alignment"
    /\ \/ /\ reply' = [kind |-> "alignment", ok |-> FALSE]
          /\ device' = [device EXCEPT
                          !.error = Some("Couldn't get device block size")]
          /\ Break("alignment")
       \/ \E phys \in SectorSizes, logical \in SectorSizes :
             /\ reply' = [kind |-> "alignment", ok |-> TRUE,
                          BytesPerPhysicalSector |-> phys,
                          BytesPerLogicalSector |-> logical]
             /\ device' = [device EXCEPT !.blockSize = phys,
                                         !.logicalBlockSize = logical]
             /\ pc' = "writable" /\ brk' = brk
    /\ UNCHANGED <<fresh, devIdx, drives, h_device, index, device_number,
                   h_physical, volumes, vi, h_logical, volDisk, openHandles,
                   macVars>>

\* The loop's last statement left out: the same interface index is asked
\* for again.
Writable_NoAdvance ==
    /\ pc = "writable"
    /\ \E ok \in BOOLEAN :
          /\ reply' = [kind |-> "writable", ok |-> ok]
          /\ device' = [device EXCEPT !.isReadOnly = ~ok]
    /\ openHandles' = Close(openHandles, h_physical)
    /\ h_physical' = INVALID_HANDLE_VALUE
    /\ index' = index
    /\ pc' = "enum"
    /\ UNCHANGED <<fresh, devIdx, drives, h_device, device_number, brk,
                   volumes, vi, h_logical, volDisk, macVars>>

\* IOCTL_DISK_IS_WRITABLE, CloseHandle(h_physical), index += 1.
Writable ==
    /\ pc = "writable"
    /\ \E ok \in BOOLEAN :
          /\ reply' = [kind |-> "writable", ok |-> ok]
          /\ device' = [device EXCEPT !.isReadOnly = ~ok]
    /\ openHandles' = Close(openHandles, h_physical)
    /\ h_physical' = INVALID_HANDLE_VALUE
    /\ index' = index + 1
    /\ pc' = "enum"
    /\ UNCHANGED <<fresh, devIdx, drives, h_device, device_number, brk,
                   volumes, vi, h_logical, volDisk, macVars>>

\* After the loop: close h_device if it is valid, return.  The loop's
\* locals go out of scope.
Exit ==
    /\ pc = "exit"
    /\ openHandles' = IF h_device # INVALID_HANDLE_VALUE
                      THEN Close(openHandles, h_device) ELSE openHandles
    /\ h_device' = INVALID_HANDLE_VALUE
    /\ h_physical' = INVALID_HANDLE_VALUE
    /\ device_number' = -1
    /\ pc' = "returned"
    /\ reply' = NoReply
    /\ UNCHANGED <<fresh, devIdx, drives, device, index, brk, volumes, vi,
                   h_logical, volDisk, macVars>>


(***************************************************************************)
(* macos.rs                                                                *)
(***************************************************************************)
RECURSIVE SeqsUpTo(_, _)
SeqsUpTo(S, n) ==
    IF n = 0 THEN {<<>>}
    ELSE LET shorter == SeqsUpTo(S, n - 1)
         IN  shorter \cup {Append(q, x) : q \in shorter, x \in S}

\* The Partition and Disk records a listing can deserialize to.
Partitions ==
    { [mount_point |-> mp, content |-> <<"Apple_APFS">>, size |-> sz] :
      mp \in {None, Some(<<"/">>)}, sz \in {0, 500} }

Disks ==
    { [device_identifier |-> "disk0", os_internal |-> oi, size |-> 1000,
       content |-> <<"GUID_partition_scheme">>, partitions |-> ps] :
      oi \in BOOLEAN, ps \in SeqsUpTo(Partitions, MaxPartitions) }

\* impl From<Partition> for MountPoint
MountPointFromPartition(value) ==
    [path |-> IF value.mount_point = None THEN <<>> ELSE value.mount_point[1],
     label |-> Some(value.content),
     totalBytes |-> Some(value.size),
     availableBytes |-> None]

\* impl From<Disk> for DeviceDescriptor
DescriptorFromDisk(value) ==
    [DefaultDescriptor EXCEPT
        !.enumerator = <<"diskutil">>,
        !.description = value.content,
        !.size = value.size,
        !.mountpoints = [i \in 1..Len(value.partitions) |->
                            MountPointFromPartition(value.partitions[i])],
        !.device = <<"/dev/", value.device_identifier>>,
        !.raw = <<"/dev/r", value.device_identifier>>,
        !.isSystem = value.os_internal,
        !.isRemovable = ~value.os_internal]

\* What the child process can leave behind: an exit status and a stdout
\* that either deserializes to a Disks value or does not.
Outputs ==
    { [status_success |-> st, stdout |-> so] :
      st \in BOOLEAN,
      so \in {[parses |-> FALSE, all_disks_and_partitions |-> <<>>]} \cup
             { [parses |-> TRUE, all_disks_and_partitions |-> ds] :
               ds \in SeqsUpTo(Disks, MaxDisks) } }

\* Command::new("diskutil").args(..).output()?
DiskutilOutput ==
    /\ pc = "diskutil"
    /\ \/ /\ result' = [kind |-> "Err", value |-> "io error"]
          /\ pc' = "mac_done"
          /\ output' = output
       \/ \E o \in Outputs :
             /\ output' = Some(o)
             /\ pc' = "mac_status"
             /\ result' = result
    /\ UNCHANGED <<fresh, devIdx, drives, device, winLocals, volDisk,
                   openHandles, reply, parsed>>

\* The status test left out: the output is parsed whatever the exit status.
DiskutilStatus_Unchecked ==
    /\ pc = "mac_status"
    /\ result' = result
    /\ pc' = "mac_parse"
    /\ UNCHANGED <<fresh, devIdx, drives, device, winLocals, volDisk,
                   openHandles, reply, output, parsed>>

\* if !output.status.success() { return Err("diskutil fail") }
DiskutilStatus ==
    /\ pc = "mac_status"
    /\ IF ~output[1].status_success
       THEN /\ result' = [kind |-> "Err", value |-> "diskutil fail"]
            /\ pc' = "mac_done"
       ELSE /\ result' = result
            /\ pc' = "mac_parse"
    /\ UNCHANGED <<fresh, devIdx, drives, device, winLocals, volDisk,
                   openHandles, reply, output, parsed>>

\* plist::from_bytes(&output.stdout).unwrap(), then the mapping.
DiskutilParse ==
    /\ pc = "mac_parse"
    /\ IF ~output[1].stdout.parses
       THEN /\ pc' = "panic"
            /\ parsed' = parsed
            /\ result' = [kind |-> "panic", value |-> "unwrap on Err"]
       ELSE /\ parsed' = Some(output[1].stdout.all_disks_and_partitions)
            /\ result' = [kind |-> "Ok",
                          value |-> [i \in 1..Len(parsed'[1]) |->
                                       DescriptorFromDisk(parsed'[1][i])]]
            /\ pc' = "mac_done"
    /\ UNCHANGED <<fresh, devIdx, drives, device, winLocals, volDisk,
                   openHandles, reply, output>>

(***************************************************************************)
(* Specification                                                           *)
(***************************************************************************)
InitLocals ==
    /\ devIdx = 0
    /\ drives = <<>>
    /\ device = DefaultDescriptor
    /\ h_device = INVALID_HANDLE_VALUE
    /\ index = 0
    /\ device_number = -1
    /\ h_physical = INVALID_HANDLE_VALUE
    /\ brk = "none"
    /\ volumes = <<>>
    /\ vi = 0
    /\ h_logical = INVALID_HANDLE_VALUE
    /\ openHandles = {}
    /\ reply = NoReply
    /\ output = None
    /\ parsed = None
    /\ result = [kind |-> "none", value |-> ""]

\* The Native-Query Probe: the caller's descriptor has device_path set or
\* not; every logical volume lives on one of the disks.
Init ==
    /\ fresh \in { [DefaultDescriptor EXCEPT !.devicePath = dp] :
                   dp \in {None, Some(<<"devicePath">>)} }
    /\ pc = "caller"
    /\ volDisk \in [1..MaxVolumes -> DiskNumbers]
    /\ InitLocals

\* The steps of get_detail_data and of the get_mount_points it calls.
NextDevice ==
    \/ Entry
    \/ EnumInterfaces
    \/ SizingCall
    \/ DetailCall
    \/ OpenInterface
    \/ ResolveDeviceNumber
    \/ MountVolume
    \/ MountPointsReturn
    \/ OpenPhysical
    \/ Geometry
    \/ Layout
    \/ Adapter
    \/ Alignment
    \/ Writable
    \/ Exit

Next ==
    \/ CallerNext
    \/ CallerPush
    \/ NextDevice

Spec == Init /\ [][Next]_vars

\* One call of get_detail_data, for any one of the devices, on the
\* caller's fresh descriptor.
InitDevice ==
    /\ fresh \in { [DefaultDescriptor EXCEPT !.devicePath = dp] :
                   dp \in {None, Some(<<"devicePath">>)} }
    /\ pc = "entry"
    /\ volDisk \in [1..MaxVolumes -> DiskNumbers]
    /\ devIdx \in 0..(NumDevices - 1)
    /\ drives = <<>>
    /\ device = fresh
    /\ h_device = INVALID_HANDLE_VALUE
    /\ index = 0
    /\ device_number = -1
    /\ h_physical = INVALID_HANDLE_VALUE
    /\ brk = "none"
    /\ volumes = <<>>
    /\ vi = 0
    /\ h_logical = INVALID_HANDLE_VALUE
    /\ openHandles = {}
    /\ reply = NoReply
    /\ output = None
    /\ parsed = None
    /\ result = [kind |-> "none", value |-> ""]

SpecDevice == InitDevice /\ [][NextDevice]_vars

\* One call of get_detail_data that keeps running: the thread executing it
\* is never suspended for ever, and every native call returns.
SpecDeviceFair == SpecDevice /\ WF_vars(NextDevice)

\* get_adapter_info on its own: one call of get_detail_data that has come
\* to the adapter query of its first interface (no volume matched, the
\* geometry and layout queries succeeded), answered with any BusType byte.
InitBusType ==
    /\ fresh \in { [DefaultDescriptor EXCEPT !.devicePath = dp] :
                   dp \in {None, Some(<<"devicePath">>)} }
    /\ pc = "adapter"
    /\ volDisk \in [1..MaxVolumes -> DiskNumbers]
    /\ devIdx \in 0..(NumDevices - 1)
    /\ drives = <<>>
    /\ \E sz \in DiskSizes, bps \in SectorSizes,
          ptt \in {None, Some("mbr"), Some("gpt")} :
          device = [fresh EXCEPT !.raw = PhysicalDrive(TrueNumber(devIdx)),
                                 !.device = PhysicalDrive(TrueNumber(devIdx)),
                                 !.size = sz, !.blockSize = bps,
                                 !.partitionTableType = ptt]
    /\ h_device = Handle("interface", devIdx, 0, 0)
    /\ index = 0
    /\ device_number = TrueNumber(devIdx)
    /\ h_physical = Handle("physical", devIdx, 0, 0)
    /\ brk = "none"
    /\ volumes = <<>>
    /\ vi = 0
    /\ h_logical = INVALID_HANDLE_VALUE
    /\ openHandles = {h_device, h_physical}
    /\ reply = NoReply
    /\ output = None
    /\ parsed = None
    /\ result = [kind |-> "none", value |-> ""]

NextBusType ==
    \/ AdapterAnyCode

SpecBusType == InitBusType /\ [][NextBusType]_vars

\* The Structured-Listing Probe: one call of diskutil().
InitMac ==
    /\ fresh = DefaultDescriptor
    /\ pc = "diskutil"
    /\ volDisk = [v \in 1..MaxVolumes |-> 0]
    /\ InitLocals

NextMac ==
    \/ DiskutilOutput
    \/ DiskutilStatus
    \/ DiskutilParse

SpecMac == InitMac /\ [][NextMac]_vars


(***************************************************************************)
(* Properties                                                              *)
(***************************************************************************)
Range(q) == {q[i] : i \in 1..Len(q)}

\* The descriptors that exist: the finished ones, the one being filled, and
\* the ones diskutil() returned.
Descriptors ==
    Range(drives) \cup {device} \cup
    (IF result.kind = "Ok" THEN Range(result.value) ELSE {})

MountPoints ==
    UNION {Range(d.mountpoints) : d \in Descriptors}
    \cup {MountPoint_new(VolumePath(v)) : v \in 1..MaxVolumes}

\* The steps of one device's processing that fail softly.
SoftSteps ==
    {"device_number", "mount_points", "physical", "geometry", "layout",
     "adapter", "alignment"}

\* The fields the steps after a failing step would have written still hold
\* the caller's values (first interface of the device).
LaterFieldsDefault(step) ==
    /\ device.isReadOnly = fresh.isReadOnly
    /\ step # "alignment" =>
          /\ device.logicalBlockSize = fresh.logicalBlockSize
          /\ device.busType = None /\ device.busVersion = None
    /\ step \notin {"alignment", "adapter"} =>
          device.partitionTableType = None
    /\ step \notin {"alignment", "adapter", "layout"} =>
          device.size = 0 /\ device.blockSize = fresh.blockSize
    /\ step = "device_number" =>
          device.mountpoints = <<>> /\ device.raw = <<>>

\* C1: a failure of a soft step of one device's processing never aborts
\* get_detail_data: the call reaches its return with the descriptor's error
\* set, and the fields of the later steps are still at their defaults.
C1_SoftFailureNeverAborts ==
    brk \in SoftSteps =>
        /\ pc # "panic"
        /\ pc \in {"exit", "returned"} =>
              /\ device.error # None
              /\ index = 0 => LaterFieldsDefault(brk)

\* C2: when get_detail_data has returned and the descriptor's error is
\* unset, no probing step failed: the loop ended because the enumerator
\* reported "no more items".
C2_NoErrorMeansAllStepsSucceeded ==
    (pc = "returned" /\ device.error = None) => brk = "no_more_items"

\* C3: the physical handle of one interface is closed before the next
\* interface index is attempted, and when get_detail_data returns neither
\* the interface handle nor the physical handle it opened is still open.
C3_HandlesClosedOnEveryExit ==
    pc \in {"enum", "returned"} =>
        \A h \in openHandles :
            (h.dev = devIdx /\ h.kind \in {"interface", "physical"}) =>
                (pc = "enum" /\ h = h_device)

\* C4: at most one logical-volume handle is open at any time, and none is
\* open once get_mount_points has been left.
C4_LogicalHandleReleased ==
    LET logical == {h \in openHandles : h.kind = "logical"}
    IN  /\ Cardinality(logical) <= 1
        /\ pc # "mounts" => logical = {}

\* C5: blockSize and logicalBlockSize of every descriptor are never zero.
C5_BlockSizesNeverZero ==
    \A d \in Descriptors : d.blockSize # 0 /\ d.logicalBlockSize # 0

\* C6: for every MountPoint, totalBytes is present if and only if
\* availableBytes is present.
C6_TotalAndAvailableTogether ==
    \A mp \in MountPoints :
        (mp.totalBytes # None) <=> (mp.availableBytes # None)

\* The descriptors of one enumeration call, each device's once.
Enumerated == IF pc = "caller" THEN drives ELSE Append(drives, device)

HasVolume(d, v) ==
    \E k \in 1..Len(d.mountpoints) : d.mountpoints[k].path = VolumePath(v)

\* C7: a logical volume is appended to a descriptor's mountpoints only if
\* its resolved device number is nonnegative and equals the descriptor's
\* device number, and no logical volume is in the mountpoints of more than
\* one device's descriptor.
C7_VolumeOnOneDevice ==
    [][ /\ (pc = "mounts" /\ Len(device'.mountpoints) > Len(device.mountpoints))
            => /\ get_device_number(reply'.buf) >= 0
               /\ get_device_number(reply'.buf) = device_number
               /\ device'.raw = PhysicalDrive(get_device_number(reply'.buf))
        /\ \A v \in 1..MaxVolumes :
              Cardinality({i \in 1..Len(Enumerated') :
                              HasVolume(Enumerated'[i], v)}) <= 1 ]_vars

\* C8: when the listing utility exits with a nonzero status, diskutil()
\* returns Err, returns no device list, and does not parse the output.
C8_NonzeroExitIsErr ==
    (output # None /\ ~output[1].status_success) =>
        /\ parsed = None
        /\ pc \in {"mac_status", "mac_done"}
        /\ pc = "mac_done" =>
              result = [kind |-> "Err", value |-> "diskutil fail"]

C8_Witness ==
    /\ pc = "mac_done"
    /\ output # None
    /\ ~output[1].status_success
    /\ output[1].stdout.parses
    /\ Len(output[1].stdout.all_disks_and_partitions) > 0
    /\ result.kind = "Err"

\* C9: when the listing utility exits successfully but its output cannot be
\* parsed, diskutil() returns Err to its caller; it does not terminate
\* abnormally.
C9_UnparseableIsErr ==
    (/\ output # None
     /\ output[1].status_success
     /\ ~output[1].stdout.parses
     /\ pc \notin {"mac_status", "mac_parse"}) =>
        (pc = "mac_done" /\ result.kind = "Err")

IsMultipleOf4(n) == \E k \in 0..n : n = 4 * k

\* C10: when the drive-layout query succeeds, get_partition_table_type
\* classifies style MBR with a partition count that is a multiple of 4 as
\* mbr, style GPT with any count as gpt, leaves partitionTableType as it
\* was otherwise, and returns success without touching error.
C10_PartitionClassification ==
    [][ (pc = "layout" /\ reply'.kind = "layout" /\ reply'.ok) =>
          LET style == reply'.PartitionStyle
              count == reply'.PartitionCount
          IN  /\ pc' = "adapter"
              /\ device'.error = device.error
              /\ device'.partitionTableType =
                   IF style = PARTITION_STYLE_MBR /\ IsMultipleOf4(count)
                   THEN Some("mbr")
                   ELSE IF style = PARTITION_STYLE_GPT THEN Some("gpt")
                   ELSE device.partitionTableType ]_vars

C10_Witness ==
    /\ pc = "adapter"
    /\ reply.kind = "layout"
    /\ reply.ok
    /\ reply.PartitionStyle = PARTITION_STYLE_MBR
    /\ reply.PartitionCount = 8
    /\ device.partitionTableType = Some("mbr")
    /\ device.error = None


\* The names of codes 0..19 as the claim lists them (16 is not a bus type).
C11_Names ==
    <<"UNKNOWN", "SCSI", "ATAPI", "ATA", "1394", "SSA", "FIBRE", "USB",
      "RAID", "iSCSI", "SAS", "SATA", "SDCARD", "MMC", "VIRTUAL",
      "FILEBACKEDVIRTUAL", "INVALID", "NVME", "SCM", "UFS">>

C11_Recognized == (0..19) \ {16}

\* C11: get_bus_type maps every BusType code to a name: the codes 0..15 and
\* 17..19 to their bus names, every other code to INVALID, and two distinct
\* recognized codes never to the same name.
C11_BusTypeMapping ==
    (reply.kind = "adapter" /\ reply.ok) =>
        LET code == reply.BusType
        IN  /\ device.busType =
                  Some(IF code \in 0..19 THEN C11_Names[code + 1]
                       ELSE "INVALID")
            /\ code \in C11_Recognized =>
                  \A other \in C11_Recognized \ {code} :
                      Some(get_bus_type(other)) # device.busType

C11_Witness ==
    /\ pc = "alignment"
    /\ reply.kind = "adapter"
    /\ reply.ok
    /\ reply.BusType = 99
    /\ device.busType = Some("INVALID")


\* The labels of a sequence of mount points, in order, of those that have
\* one.
RECURSIVE C12_Labels(_)
C12_Labels(mps) ==
    IF mps = <<>> THEN <<>>
    ELSE (IF Head(mps).label = None THEN <<>> ELSE <<Head(mps).label[1]>>)
         \o C12_Labels(Tail(mps))

\* C12: mountpointLabels of every descriptor lists, in mountpoints order,
\* the label of each mount point that has one.
C12_LabelsParallelToMountpoints ==
    \A d \in Descriptors : d.mountpointLabels = C12_Labels(d.mountpoints)


\* C13: get_device_number returns a nonnegative number only when the
\* device-number query succeeded (that number) or the extents query
\* succeeded with exactly one extent (that extent's disk number); two or
\* more extents, or neither of these cases, give -1.
C13_DeviceNumberCases ==
    reply.kind = "devnum" =>
        LET r == reply.buf
            n == get_device_number(r)
            one_extent == r.extents_ok /\ r.NumberOfDiskExtents = 1
            spanned == r.extents_ok /\ r.NumberOfDiskExtents >= 2
        IN  /\ n >= 0 => device_number = n
            /\ spanned => n = -1
            /\ (~spanned /\ r.number_ok) => n = r.DeviceNumber
            /\ (one_extent /\ ~r.number_ok) => n = r.Extents0DiskNumber
            /\ (~one_extent /\ ~r.number_ok) => n = -1


\* C14: after get_detail_data returns, isReadOnly is false only if the
\* writability probe was issued (an interface was processed to its end)
\* and succeeded; a failed probe reports read-only.
C14_ReadOnlyUnlessProvenWritable ==
    /\ reply.kind = "writable" => device.isReadOnly = ~reply.ok
    /\ (pc = "returned" /\ ~device.isReadOnly) => index >= 1


\* The loop's interface index moves only at the function's entry (to 0) and
\* at the end of a fully processed interface (by one); the enumerator is
\* asked for exactly that index.
C15_IndexStep ==
    /\ index' # index => (pc = "writable" /\ pc' = "enum" /\ index' = index + 1)
    /\ pc = "entry" => index' = 0
    /\ (pc = "writable" /\ pc' # pc) => index' = index + 1
    /\ (pc = "enum" /\ pc' # pc) => (reply'.kind = "enum" /\ reply'.index = index)

\* The loop is left for the code after it only by a break: the one of
\* ERROR_NO_MORE_ITEMS or the one of a failed step of the current interface.
C15_LoopExit ==
    (pc # "exit" /\ pc' = "exit") =>
        brk' \in {"no_more_items", "detail", "open"} \cup SoftSteps

\* What the enumerator's answer decides: no more items ends the loop, any
\* other failure panics, success goes on with this interface.
C15_EnumOutcome ==
    reply.kind = "enum" =>
        /\ reply.outcome = "ERROR_NO_MORE_ITEMS" =>
              (pc = "exit" /\ brk = "no_more_items")
        /\ reply.outcome = "error" => pc = "panic"
        /\ reply.outcome = "ok" => pc = "sizing"

\* C15: interface indices are visited as 0, 1, 2, ..., one step after each
\* fully processed interface; the loop ends normally exactly on "no more
\* items" or a soft failure; any other enumerator failure is fatal (the
\* call never returns, nothing follows a panic); and with finitely many
\* interfaces the call always comes to its end.
C15_InterfaceDiscovery ==
    /\ [][C15_IndexStep /\ C15_LoopExit /\ pc # "panic"]_vars
    /\ [](C15_EnumOutcome)
    /\ [](pc = "panic" => [](pc # "returned"))
    /\ <>(pc \in {"returned", "panic"})

C15_Witness ==
    /\ pc = "exit"
    /\ brk = "no_more_items"
    /\ index = MaxIfaces
    /\ index >= 1

====
